---- MODULE Spec2Model ----
(***************************************************************************)
(* Model of src/old_working_code.py: the legacy statement-delivery run     *)
(* (run, update_stdl_userfield, write_report) and the closed-loan email    *)
(* flow (run_with_email_flow, process_records, send_email,                 *)
(* write_audit_log).                                                       *)
(***************************************************************************)
EXTENDS Integers, Sequences, FiniteSets, TLC

(***************************************************************************)
(* Bounds of the model.                                                    *)
(***************************************************************************)
\* longest list of closed-account records returned by get_closed_accounts
MaxAccounts == 2
\* longest list of rows returned by fetch_records
MaxRecords == 2
\* largest entity number (persnbr / orgnbr)
MaxEntity == 2
\* clock ticks per calendar day; strptime yields the first tick of a day
TicksPerDay == 2
\* last clock tick datetime.now() may return
MaxClock == 2

(***************************************************************************)
(* Python values.  None and "" are both falsy; a missing dictionary key is *)
(* NoKey.  An optional number is <<>> (None) or <<n>>.                     *)
(***************************************************************************)
NoKey == "<absent>"
None == <<>>
Some(v) == <<v>>

SeqsUpTo(S, n) == UNION {[1..k -> S] : k \in 0..n}

(***************************************************************************)
(* Inputs of the email flow.                                               *)
(***************************************************************************)
Emails == {"a@b.com", "c@d.com", "not-an-email", ""}
WellFormedEmails == {"a@b.com", "c@d.com", "qa@firsttechfed.com"}
Balances == {None, Some(0), Some(150)}
\* note class and inactive date (a calendar day) of the joined note, if any
Notes ==
    {[FDI_NOTECLASSCD |-> "NOTE", FDI_INACTIVE_DATE |-> None],
     [FDI_NOTECLASSCD |-> "8FDI", FDI_INACTIVE_DATE |-> None],
     [FDI_NOTECLASSCD |-> "8FDI", FDI_INACTIVE_DATE |-> Some(0)],
     [FDI_NOTECLASSCD |-> "8FDI", FDI_INACTIVE_DATE |-> Some(1)]}

AccountRows ==
    {[EMAILADDR |-> e, BALANCE |-> b, FDI_NOTECLASSCD |-> n.FDI_NOTECLASSCD,
      FDI_INACTIVE_DATE |-> n.FDI_INACTIVE_DATE]
     : e \in Emails, b \in Balances, n \in Notes}

\* a row as the cursor returns it: no RESULT / EXCPYN key yet
MkAccount(i, row) ==
    [ACCTNBR |-> i, EMAILADDR |-> row.EMAILADDR, BALANCE |-> row.BALANCE,
     FDI_NOTECLASSCD |-> row.FDI_NOTECLASSCD,
     FDI_INACTIVE_DATE |-> row.FDI_INACTIVE_DATE,
     RESULT |-> NoKey, EXCPYN |-> FALSE]

AccountLists ==
    {[i \in DOMAIN rows |-> MkAccount(i, rows[i])] : rows \in SeqsUpTo(AccountRows, MaxAccounts)}

\* SEND_EMAIL_YN, TEST_EMAIL_ADDR and the AW_HOME environment variable
EmailConfigs ==
    {[SEND_EMAIL_YN |-> "Y", TEST_EMAIL_ADDR |-> "", AW_HOME |-> "/aw"],
     [SEND_EMAIL_YN |-> "Y", TEST_EMAIL_ADDR |-> "qa@firsttechfed.com", AW_HOME |-> "/aw"],
     [SEND_EMAIL_YN |-> "N", TEST_EMAIL_ADDR |-> "", AW_HOME |-> "/aw"],
     [SEND_EMAIL_YN |-> "Y", TEST_EMAIL_ADDR |-> "", AW_HOME |-> ""]}

(***************************************************************************)
(* Inputs of the legacy run.                                               *)
(***************************************************************************)
EntityTypes == {"pers", "org"}
AcctNbrs == {10, 11}
EntityRows ==
    [ENTITY_TYPE : EntityTypes, ENTITY_NUMBER : 1..MaxEntity,
     ACCTNBR : AcctNbrs, CLOSE_DATE : {"01-15-2026"}]

IsInjective(f) == \A i, j \in DOMAIN f : f[i] = f[j] => i = j

\* the SELECT DISTINCT ... UNION query returns no row twice
EntityLists == {l \in SeqsUpTo(EntityRows, MaxRecords) : IsInjective(l)}

RunArgs ==
    [SEND_EMAIL_YN : {"Y", "N"}, TEST_EMAIL_ADDR : {""}, AW_HOME : {"/aw"},
     RPTONLY_YN : {"Y", "N"}, FULL_CLEANUP_YN : {"Y", "N"},
     RUN_DATE : {None, Some("01-15-2026")},
     EMAIL_RECIPIENTS : {"ops@firsttechfed.com"}]

EmailArgs ==
    {[SEND_EMAIL_YN |-> c.SEND_EMAIL_YN, TEST_EMAIL_ADDR |-> c.TEST_EMAIL_ADDR,
      AW_HOME |-> c.AW_HOME, RPTONLY_YN |-> "Y", FULL_CLEANUP_YN |-> "N",
      RUN_DATE |-> None, EMAIL_RECIPIENTS |-> "ops@firsttechfed.com"]
     : c \in EmailConfigs}

\* the attribute store: the STDL row of every key of the two tables
Tables == {"persuserfield", "orguserfield"}
StoreKeys == Tables \X (1..MaxEntity)
NoRow == [value |-> "<no row>", datelastmaint |-> "<no row>"]
OldRow(v) == [value |-> v, datelastmaint |-> "earlier"]
InitStores ==
    {[k \in StoreKeys |-> NoRow],
     [k \in StoreKeys |-> OldRow("ELEC")],
     [k \in StoreKeys |-> IF k[2] = 1 THEN OldRow("PAPR") ELSE NoRow]}

(***************************************************************************)
(* State.                                                                  *)
(***************************************************************************)
VARIABLES
    entry,         \* "run" or "run_with_email_flow"
    pc,            \* position in the entry function
    args,          \* apwx.args, plus AW_HOME of os.environ
    query_result,  \* rows the relational source returns for the run's SELECT
    accounts,      \* the list process_records and write_audit_log work on
    idx,           \* 1-based position of the for loop of process_records
    email_sent,    \* the set email_sent of process_records
    smtp_log,      \* calls of send_smtp_request, in order
    clock,         \* last value datetime.now() returned
    outfile,       \* the file at OUTPUT_FILE_PATH / OUTPUT_FILE_NAME
    pers_records,  \* run: the rows of persons
    org_records,   \* run: the rows of organizations
    successes,     \* run: the success report rows
    fails,         \* run: the failure report rows
    store,         \* committed rows of persuserfield / orguserfield
    session,       \* the rows as the connection dbh sees them
    autocommit,    \* dbh.autocommit
    store_log,     \* statements and transaction calls submitted on dbh
    alert_sent     \* run: send_legacy_email was called

vars == <<entry, pc, args, query_result, accounts, idx, email_sent, smtp_log,
          clock, outfile, pers_records, org_records, successes, fails, store,
          session, autocommit, store_log, alert_sent>>

emailVars == <<accounts, idx, email_sent, smtp_log, clock>>

(***************************************************************************)
(* Output file: a list of csv rows.  A row carries a text cell and, for a  *)
(* data row, the record it was written from.                               *)
(***************************************************************************)
TextRow(t) == [text |-> t, rec |-> <<>>]
DataRow(r) == [text |-> "", rec |-> <<r>>]
BlankRow == TextRow("")
NoFile == [exists |-> FALSE, rows |-> <<>>]
\* what a file opened for writing can hold when a later call raises before
\* the last row is written: the rows written so far
Prefixes(rows) == {SubSeq(rows, 1, n) : n \in 0..(Len(rows) - 1)}

(***************************************************************************)
(* Email flow.                                                             *)
(***************************************************************************)
\* email_validator accepts exactly the well-formed addresses
validate_email(email) ==
    IF email = "" THEN FALSE ELSE email \in WellFormedEmails

\* datetime.strptime(s, "%m/%d/%Y"): midnight of the day
strptime(day) == day * TicksPerDay

is_fdi(account, now) ==
    IF account.FDI_NOTECLASSCD # "8FDI" THEN FALSE
    ELSE IF account.FDI_INACTIVE_DATE = None THEN FALSE
    ELSE strptime(account.FDI_INACTIVE_DATE[1]) >= now

is_local_environment(a) == a.AW_HOME = ""

send_email_enabled(a) == a.SEND_EMAIL_YN = "Y"

\* (account.get("BALANCE") or 0)
BalanceOrZero(b) == IF b = None THEN 0 ELSE b[1]

\* the address send_email sends to
ToAddress(a, account) ==
    IF a.TEST_EMAIL_ADDR # "" THEN a.TEST_EMAIL_ADDR ELSE account.EMAILADDR

\* a call of send_smtp_request
SmtpCall(a, account, smtp_ok) ==
    [acct |-> account.ACCTNBR, rcpt |-> account.EMAILADDR,
     to |-> ToAddress(a, account), ok |-> smtp_ok]

\* variant of send_email: the environment is not looked at
send_email_ignores_environment(a, account, render_ok, smtp_ok) ==
    IF ~render_ok
    THEN [successful |-> FALSE, message |-> "", calls |-> <<>>, raised |-> TRUE]
    ELSE IF ~send_email_enabled(a)
    THEN [successful |-> FALSE, message |-> "Email Send Disabled", calls |-> <<>>,
          raised |-> FALSE]
    ELSE IF smtp_ok
    THEN [successful |-> TRUE, message |-> "Email Sent",
          calls |-> <<SmtpCall(a, account, smtp_ok)>>, raised |-> FALSE]
    ELSE [successful |-> FALSE, message |-> "Email Failed",
          calls |-> <<SmtpCall(a, account, smtp_ok)>>, raised |-> FALSE]

\* variant of send_email: the exception of the transport is not caught
send_email_no_except(a, account, render_ok, smtp_ok) ==
    IF ~render_ok
    THEN [successful |-> FALSE, message |-> "", calls |-> <<>>, raised |-> TRUE]
    ELSE IF is_local_environment(a) \/ ~send_email_enabled(a)
    THEN [successful |-> FALSE, message |-> "Email Send Disabled", calls |-> <<>>,
          raised |-> FALSE]
    ELSE IF smtp_ok
    THEN [successful |-> TRUE, message |-> "Email Sent",
          calls |-> <<SmtpCall(a, account, smtp_ok)>>, raised |-> FALSE]
    ELSE [successful |-> FALSE, message |-> "",
          calls |-> <<SmtpCall(a, account, smtp_ok)>>, raised |-> TRUE]

\* send_email: (successful, message), the calls made to send_smtp_request and
\* whether an exception leaves the function.  generate_email_content and
\* generate_email_message run first, outside the try, also when sending is
\* disabled: render_ok tells whether they return.  The try catches every
\* exception of the transport; smtp_ok tells whether the transport succeeds.
send_email(a, account, render_ok, smtp_ok) ==
    IF ~render_ok
    THEN [successful |-> FALSE, message |-> "", calls |-> <<>>, raised |-> TRUE]
    ELSE IF is_local_environment(a) \/ ~send_email_enabled(a)
    THEN [successful |-> FALSE, message |-> "Email Send Disabled", calls |-> <<>>,
          raised |-> FALSE]
    ELSE IF smtp_ok
    THEN [successful |-> TRUE, message |-> "Email Sent",
          calls |-> <<SmtpCall(a, account, smtp_ok)>>, raised |-> FALSE]
    ELSE [successful |-> FALSE, message |-> "Email Failed",
          calls |-> <<SmtpCall(a, account, smtp_ok)>>, raised |-> FALSE]

\* variant of AfterSend: the guard is left as it was
AfterSend_registers_nothing(account, sent, s, registered) ==
    IF s.raised
    THEN [account |-> [account EXCEPT !.RESULT = "", !.EXCPYN = FALSE],
          email_sent |-> sent, calls |-> s.calls, raised |-> TRUE]
    ELSE [account |-> [account EXCEPT !.RESULT = s.message, !.EXCPYN = ~s.successful],
          email_sent |-> sent, calls |-> s.calls, raised |-> FALSE]

\* the record and the guard after send_email returned s, or, when send_email
\* raised, as lines 665-666 left them
AfterSend(account, sent, s, registered) ==
    IF s.raised
    THEN [account |-> [account EXCEPT !.RESULT = "", !.EXCPYN = FALSE],
          email_sent |-> sent, calls |-> s.calls, raised |-> TRUE]
    ELSE [account |-> [account EXCEPT !.RESULT = s.message, !.EXCPYN = ~s.successful],
          email_sent |-> sent \cup registered, calls |-> s.calls, raised |-> FALSE]

\* process_records, lines 687-691: the record is handed to send_email and
\* its address is added to email_sent
\* variant of dispatch: the address is added only when the send succeeded
dispatch_register_on_success(a, account, sent, render_ok, smtp_ok) ==
    LET s == send_email(a, account, render_ok, smtp_ok)
    IN  AfterSend(account, sent, s, IF s.successful THEN {account.EMAILADDR} ELSE {})

\* variant of dispatch: the address the message went to is added
dispatch_register_to_address(a, account, sent, render_ok, smtp_ok) ==
    LET s == send_email(a, account, render_ok, smtp_ok)
    IN  AfterSend(account, sent, s, {ToAddress(a, account)})

dispatch(a, account, sent, render_ok, smtp_ok) ==
    LET s == send_email(a, account, render_ok, smtp_ok)
    IN  AfterSend(account, sent, s, {account.EMAILADDR})

\* variant of Skip: EXCPYN is left as line 666 set it
Skip_flag_not_set(account, sent, result, excp, clk) ==
    [account |-> [account EXCEPT !.RESULT = result, !.EXCPYN = FALSE],
     email_sent |-> sent, calls |-> <<>>, read_clock |-> clk, rendered |-> FALSE,
     raised |-> FALSE]

\* the outcome of a rule that skips the record
Skip(account, sent, result, excp, clk) ==
    [account |-> [account EXCEPT !.RESULT = result, !.EXCPYN = excp],
     email_sent |-> sent, calls |-> <<>>, read_clock |-> clk, rendered |-> FALSE,
     raised |-> FALSE]

\* is_fdi reaches datetime.now() for this record
ReadsClock(account) ==
    account.FDI_NOTECLASSCD = "8FDI" /\ account.FDI_INACTIVE_DATE # None

\* the outcome of a record handed to send_email; generate_email_content
\* reads datetime.now() (line 770)
Dispatched(a, account, sent, render_ok, smtp_ok, clk) ==
    LET d == dispatch(a, account, sent, render_ok, smtp_ok)
    IN  [account |-> d.account, email_sent |-> d.email_sent, calls |-> d.calls,
         read_clock |-> clk, rendered |-> TRUE, raised |-> d.raised]

\* variant of process_record: the balance rule comes first
process_record_balance_first(a, account, sent, now, render_ok, smtp_ok) ==
    IF BalanceOrZero(account.BALANCE) # 0
    THEN Skip(account, sent, "Account Has Balance", TRUE, FALSE)
    ELSE IF account.EMAILADDR \in sent
    THEN Skip(account, sent, "Email Already Sent", FALSE, FALSE)
    ELSE IF ~validate_email(account.EMAILADDR)
    THEN Skip(account, sent, "Email Address Invalid", TRUE, FALSE)
    ELSE IF is_fdi(account, now)
    THEN Skip(account, sent, "Existing Active 8FDI Note", TRUE, ReadsClock(account))
    ELSE Dispatched(a, account, sent, render_ok, smtp_ok, ReadsClock(account))

\* one iteration of the for loop of process_records; now is what
\* datetime.now() returns if is_fdi reads it
process_record(a, account, sent, now, render_ok, smtp_ok) ==
    IF account.EMAILADDR \in sent
    THEN Skip(account, sent, "Email Already Sent", FALSE, FALSE)
    ELSE IF ~validate_email(account.EMAILADDR)
    THEN Skip(account, sent, "Email Address Invalid", TRUE, FALSE)
    ELSE IF BalanceOrZero(account.BALANCE) # 0
    THEN Skip(account, sent, "Account Has Balance", TRUE, FALSE)
    ELSE IF is_fdi(account, now)
    THEN Skip(account, sent, "Existing Active 8FDI Note", TRUE, ReadsClock(account))
    ELSE Dispatched(a, account, sent, render_ok, smtp_ok, ReadsClock(account))

\* write_csv: the rows of one section
write_csv(records) ==
    IF records # <<>>
    THEN <<TextRow("csv_header")>>
         \o [i \in DOMAIN records |-> DataRow(records[i])]
         \o <<BlankRow>>
    ELSE <<TextRow("NONE"), BlankRow>>

IsException(r) == r.EXCPYN
NotException(r) == ~r.EXCPYN

\* variant of write_audit_log: the sent section lists the records with
\* RESULT "Email Sent" only
write_audit_log_sent_only(accts) ==
    <<TextRow("CONSUMER CLOSED LOANS EMAIL AUDIT LOG"), TextRow("RUN DATE"),
      TextRow("EFFDATE"), BlankRow, TextRow("EMAILS SENT")>>
    \o write_csv(SelectSeq(accts, LAMBDA r : r.RESULT = "Email Sent"))
    \o <<BlankRow, TextRow("EXCEPTIONS")>>
    \o write_csv(SelectSeq(accts, IsException))
    \o <<TextRow("END")>>

\* write_audit_log: the rows written to the output file
write_audit_log(accts) ==
    <<TextRow("CONSUMER CLOSED LOANS EMAIL AUDIT LOG"), TextRow("RUN DATE"),
      TextRow("EFFDATE"), BlankRow, TextRow("EMAILS SENT")>>
    \o write_csv(SelectSeq(accts, NotException))
    \o <<BlankRow, TextRow("EXCEPTIONS")>>
    \o write_csv(SelectSeq(accts, IsException))
    \o <<TextRow("END")>>

(***************************************************************************)
(* Legacy run.                                                             *)
(***************************************************************************)
\* Python values whose comparison the code relies on: an int, a list holding
\* one int, a tuple.  Values of different types are never equal.
PyInt(n) == [t |-> "int", v |-> n]
PyList1(n) == [t |-> "list", v |-> n]
PyTuple(s) == [t |-> "tuple", v |-> s]
PyEq(x, y) == x.t = y.t /\ x.v = y.v
PyIn(x, list) == \E i \in DOMAIN list : PyEq(x, list[i])

Perms(S) == {f \in [1..Cardinality(S) -> S] : IsInjective(f)}

RECURSIVE SortedSeq(_)
SortedSeq(S) ==
    IF S = {} THEN <<>>
    ELSE LET m == CHOOSE x \in S : \A y \in S : x <= y
         IN  <<m>> \o SortedSeq(S \ {m})

SelectRow == [op |-> "select", table |-> "", keys |-> <<>>, rejected |-> {}]
MergeRow(table, keys, rejected) ==
    [op |-> "executemany", table |-> table, keys |-> keys, rejected |-> rejected]
TxnRow(op) == [op |-> op, table |-> "", keys |-> <<>>, rejected |-> {}]

\* variant of db_connect: autocommit is on in either mode
db_connect_autocommit_on(a) == a.RPTONLY_YN \in {"Y", "N"}

\* db_connect: the autocommit setting of the connection
db_connect(a) == a.RPTONLY_YN = "N"

\* variant of run_rejects: the check for neither parameter is missing
run_rejects_only_both(a, file) ==
    \/ file.exists
    \/ a.FULL_CLEANUP_YN = "Y" /\ a.RUN_DATE # None

\* the parameter and path checks of run: TRUE when run raises
run_rejects(a, file) ==
    LET is_full_cleanup == a.FULL_CLEANUP_YN = "Y"
        run_date == a.RUN_DATE
    IN  \/ file.exists
        \/ is_full_cleanup /\ run_date # None
        \/ ~is_full_cleanup /\ run_date = None

\* fetch_records: the rows of one entity type, in order
fetch_records(rows, type) ==
    SelectSeq(rows, LAMBDA r : r.ENTITY_TYPE = type)

\* variant of SameEntity: the entity number is compared with the element of
\* the one-element list
SameEntity_unwrapped(rec, merge_ent_nbr) == rec.ENTITY_NUMBER = merge_ent_nbr.v

\* rec['ENTITY_NUMBER'] == merge_ent_nbr
SameEntity(rec, merge_ent_nbr) == PyEq(PyInt(rec.ENTITY_NUMBER), merge_ent_nbr)

ReportTuple(nbr, rec, result) ==
    PyTuple(<<nbr, rec.ACCTNBR, rec.ENTITY_TYPE, rec.CLOSE_DATE, result>>)

\* the loop over batch_errors: the rows appended to fails
RECURSIVE CollectFails(_, _, _)
CollectFails(batch_errors, entity_nbrs, records) ==
    IF batch_errors = <<>> THEN <<>>
    ELSE LET merge_ent_nbr == entity_nbrs[Head(batch_errors) + 1]
             hit == SelectSeq(records, LAMBDA rec : SameEntity(rec, merge_ent_nbr))
         IN  [i \in DOMAIN hit |-> ReportTuple(merge_ent_nbr, hit[i], "Fail")]
             \o CollectFails(Tail(batch_errors), entity_nbrs, records)

\* the MERGE of the accepted keys, as the connection sees it
Merged(sess, table, accepted) ==
    [k \in StoreKeys |->
        IF k[1] = table /\ k[2] \in accepted
        THEN [value |-> "PAPR", datelastmaint |-> "SYSDATE"]
        ELSE sess[k]]

\* update_stdl_userfield.  order is the iteration order of the set of entity
\* numbers; rejected is the set of offsets the store reports as batch errors.
update_stdl_userfield(a, records, table, order, rejected, st, sess, auto) ==
    LET entity_nbrs == [i \in DOMAIN order |-> PyList1(order[i])]
        accepted == {order[i] : i \in {j \in DOMAIN order : (j - 1) \notin rejected}}
        sess1 == Merged(sess, table, accepted)
        st1 == IF auto THEN sess1 ELSE st
        batch_errors == SortedSeq(rejected)
        fls == CollectFails(batch_errors, entity_nbrs, records)
        commit == a.RPTONLY_YN = "N"
        ok == SelectSeq(records, LAMBDA r : ~PyIn(PyInt(r.ENTITY_NUMBER), fls))
    IN  [successes |-> [i \in DOMAIN ok |->
                           ReportTuple(PyInt(ok[i].ENTITY_NUMBER), ok[i], "Success")],
         fails |-> fls,
         store |-> IF commit THEN sess1 ELSE st1,
         session |-> IF commit THEN sess1 ELSE st1,
         log |-> <<MergeRow(table, order, rejected),
                   TxnRow(IF commit THEN "commit" ELSE "rollback")>>]

\* write_report: the file afterwards, and whether the call raised
write_report(file, records, write_mode) ==
    IF write_mode = "w"
    THEN [file |-> [exists |-> TRUE,
                    rows |-> <<TextRow("ENTITY_NBR,ACCTNBR,ENTITY_TYPE,CLOSE_DATE,RESULT")>>
                             \o [i \in DOMAIN records |-> DataRow(records[i])]],
          raised |-> FALSE]
    ELSE \* header is bound in mode 'w' only: the first row raises
         [file |-> [exists |-> TRUE, rows |-> file.rows],
          raised |-> records # <<>>]

(***************************************************************************)
(* Initial states.                                                         *)
(***************************************************************************)
PriorFile == [exists |-> TRUE, rows |-> <<TextRow("report of an earlier run")>>]

InitOf(entries) ==
    /\ entry \in entries
    /\ pc = entry
    /\ IF entry = "run"
       THEN args \in RunArgs /\ query_result \in EntityLists
       ELSE args \in EmailArgs /\ query_result \in AccountLists
    /\ outfile \in {NoFile, PriorFile}
    /\ store \in (IF entry = "run" THEN InitStores ELSE {[k \in StoreKeys |-> NoRow]})
    /\ session = store
    /\ autocommit = FALSE
    /\ store_log = <<>>
    /\ accounts = <<>>
    /\ idx = 1
    /\ email_sent = {}
    /\ smtp_log = <<>>
    /\ clock = 0
    /\ pers_records = <<>>
    /\ org_records = <<>>
    /\ successes = <<>>
    /\ fails = <<>>
    /\ alert_sent = FALSE

Init == InitOf({"run", "run_with_email_flow"})
InitRun == InitOf({"run"})
InitEmail == InitOf({"run_with_email_flow"})

(***************************************************************************)
(* Actions of run.                                                         *)
(***************************************************************************)
\* run, lines 59-82: connect, then the path and parameter checks
RunValidate ==
    /\ pc = "run"
    /\ \/ /\ autocommit' = db_connect(args)
          /\ pc' = IF run_rejects(args, outfile) THEN "aborted" ELSE "fetch_records"
       \* apwx.db_connect() raises: there is no connection
       \/ /\ pc' = "aborted"
          /\ UNCHANGED autocommit
       \* a call after db_connect raises (Path.exists(), get_sql)
       \/ /\ autocommit' = db_connect(args)
          /\ pc' = "aborted"
    /\ UNCHANGED <<entry, args, query_result, outfile, pers_records, org_records,
                   successes, fails, store, session, store_log, alert_sent>>
    /\ UNCHANGED emailVars

\* run, lines 85-87: the query; a lost connection ends the run
FetchRecords ==
    /\ pc = "fetch_records"
    /\ \/ /\ store_log' = Append(store_log, SelectRow)
          /\ pers_records' = fetch_records(query_result, "pers")
          /\ org_records' = fetch_records(query_result, "org")
          /\ pc' = "update_pers"
       \* cursor.execute() was accepted and a later call of the cursor raises
       \/ /\ store_log' = Append(store_log, SelectRow)
          /\ pc' = "aborted"
          /\ UNCHANGED <<pers_records, org_records>>
       \* cursor() or cursor.execute() raises
       \/ /\ pc' = "aborted"
          /\ UNCHANGED <<store_log, pers_records, org_records>>
    /\ UNCHANGED <<entry, args, query_result, outfile, successes, fails, store,
                   session, autocommit, alert_sent>>
    /\ UNCHANGED emailVars

EntityNumbers(records) == {records[i].ENTITY_NUMBER : i \in DOMAIN records}

\* run, line 92
UpdatePers ==
    /\ pc = "update_pers"
    /\ \/ \E order \in Perms(EntityNumbers(pers_records)) :
          \E rejected \in SUBSET (0..(Len(order) - 1)) :
            LET r == update_stdl_userfield(args, pers_records, "persuserfield",
                                           order, rejected, store, session, autocommit)
            IN  /\ successes' = r.successes
                /\ fails' = r.fails
                /\ store' = r.store
                /\ session' = r.session
                /\ store_log' = store_log \o r.log
                /\ pc' = "update_org"
       \* dbh.commit() / dbh.rollback() raises after executemany was submitted:
       \* an auto-committing connection has committed the accepted rows
       \/ \E order \in Perms(EntityNumbers(pers_records)) :
          \E rejected \in SUBSET (0..(Len(order) - 1)) :
            LET r == update_stdl_userfield(args, pers_records, "persuserfield",
                                           order, rejected, store, session, autocommit)
            IN  /\ store_log' = Append(store_log, r.log[1])
                /\ store' = (IF autocommit THEN r.store ELSE store)
                /\ session' = store'
                /\ pc' = "aborted"
                /\ UNCHANGED <<successes, fails>>
       \* sth.rowcount or sth.close() raises (lines 513-515), after the commit
       \* or rollback: the lists are not returned
       \/ \E order \in Perms(EntityNumbers(pers_records)) :
          \E rejected \in SUBSET (0..(Len(order) - 1)) :
            LET r == update_stdl_userfield(args, pers_records, "persuserfield",
                                           order, rejected, store, session, autocommit)
            IN  /\ store_log' = store_log \o r.log
                /\ store' = r.store
                /\ session' = r.session
                /\ pc' = "aborted"
                /\ UNCHANGED <<successes, fails>>
       \* the cursor or executemany raises
       \/ /\ pc' = "aborted"
          /\ session' = store
          /\ UNCHANGED <<successes, fails, store, store_log>>
    /\ UNCHANGED <<entry, args, query_result, outfile, pers_records, org_records,
                   autocommit, alert_sent>>
    /\ UNCHANGED emailVars

\* run, lines 93-96
UpdateOrg ==
    /\ pc = "update_org"
    /\ \/ \E order \in Perms(EntityNumbers(org_records)) :
          \E rejected \in SUBSET (0..(Len(order) - 1)) :
            LET r == update_stdl_userfield(args, org_records, "orguserfield",
                                           order, rejected, store, session, autocommit)
            IN  /\ successes' = successes \o r.successes
                /\ fails' = fails \o r.fails
                /\ store' = r.store
                /\ session' = r.session
                /\ store_log' = store_log \o r.log
                /\ pc' = "write_report"
       \* dbh.commit() / dbh.rollback() raises after executemany was submitted:
       \* an auto-committing connection has committed the accepted rows
       \/ \E order \in Perms(EntityNumbers(org_records)) :
          \E rejected \in SUBSET (0..(Len(order) - 1)) :
            LET r == update_stdl_userfield(args, org_records, "orguserfield",
                                           order, rejected, store, session, autocommit)
            IN  /\ store_log' = Append(store_log, r.log[1])
                /\ store' = (IF autocommit THEN r.store ELSE store)
                /\ session' = store'
                /\ pc' = "aborted"
                /\ UNCHANGED <<successes, fails>>
       \* sth.rowcount or sth.close() raises (lines 513-515), after the commit
       \* or rollback: the lists are not returned
       \/ \E order \in Perms(EntityNumbers(org_records)) :
          \E rejected \in SUBSET (0..(Len(order) - 1)) :
            LET r == update_stdl_userfield(args, org_records, "orguserfield",
                                           order, rejected, store, session, autocommit)
            IN  /\ store_log' = store_log \o r.log
                /\ store' = r.store
                /\ session' = r.session
                /\ pc' = "aborted"
                /\ UNCHANGED <<successes, fails>>
       \* the cursor or executemany raises
       \/ /\ pc' = "aborted"
          /\ session' = store
          /\ UNCHANGED <<successes, fails, store, store_log>>
    /\ UNCHANGED <<entry, args, query_result, outfile, pers_records, org_records,
                   autocommit, alert_sent>>
    /\ UNCHANGED emailVars

\* run, lines 98-119
WriteReports ==
    /\ pc = "write_report"
    /\ LET w1 == IF successes # <<>> THEN write_report(outfile, successes, "w")
                 ELSE [file |-> outfile, raised |-> FALSE]
           w2 == IF fails # <<>> THEN write_report(w1.file, fails, "a+")
                 ELSE [file |-> w1.file, raised |-> FALSE]
           called == successes # <<>> \/ fails # <<>>
           alert == fails # <<>> /\ args.EMAIL_RECIPIENTS # "" /\ args.SEND_EMAIL_YN = "Y"
       IN  \* run_date of write_report (datetime.today(), line 521) is never used
           /\ \/ /\ outfile' = w2.file
                 /\ IF w2.raised
                    THEN pc' = "aborted" /\ UNCHANGED alert_sent
                    ELSE pc' = "done" /\ alert_sent' = alert
              \* open() of the first write_report raises
              \/ /\ called
                 /\ pc' = "aborted"
                 /\ UNCHANGED <<outfile, alert_sent>>
              \* a writerow of the first write_report raises
              \/ /\ successes # <<>>
                 /\ \E rows \in Prefixes(w1.file.rows) :
                      outfile' = [exists |-> TRUE, rows |-> rows]
                 /\ pc' = "aborted"
                 /\ UNCHANGED alert_sent
              \* send_legacy_email or dbh.close() raises, the reports written
              \/ /\ ~w2.raised
                 /\ outfile' = w2.file
                 /\ alert_sent' \in (IF alert THEN BOOLEAN ELSE {FALSE})
                 /\ pc' = "aborted"
    /\ UNCHANGED <<entry, args, query_result, pers_records, org_records, successes,
                   fails, store, session, autocommit, store_log>>
    /\ UNCHANGED emailVars

(***************************************************************************)
(* Actions of run_with_email_flow.                                         *)
(***************************************************************************)
\* initialize and get_closed_accounts; a failure of either ends the run
Initialize ==
    /\ pc = "run_with_email_flow"
    /\ \/ /\ accounts' = query_result
          /\ store_log' = Append(store_log, SelectRow)
          /\ pc' = "process_records"
       \* cursor.execute() was accepted and a later call of the cursor raises
       \/ /\ store_log' = Append(store_log, SelectRow)
          /\ pc' = "aborted"
          /\ UNCHANGED accounts
       \* initialize, cursor() or cursor.execute() raises
       \/ /\ pc' = "aborted"
          /\ UNCHANGED <<accounts, store_log>>
    /\ UNCHANGED <<entry, args, query_result, idx, email_sent, smtp_log, clock,
                   outfile, pers_records, org_records, successes, fails, store,
                   session, autocommit, alert_sent>>

\* process_records: one iteration of the loop
ProcessRecord ==
    /\ pc = "process_records"
    /\ idx <= Len(accounts)
    /\ \E now \in clock..MaxClock :
         \* an input the iteration does not read is not varied: probe tells
         \* which of them it reads
         LET probe == process_record(args, accounts[idx], email_sent, now, TRUE, TRUE)
         IN  /\ probe.read_clock \/ now = clock
             /\ \E render_ok \in (IF probe.rendered THEN BOOLEAN ELSE {TRUE}),
                   now2 \in (IF probe.rendered THEN now..MaxClock ELSE {now}) :
                 \E smtp_ok \in (IF render_ok /\ probe.calls # <<>> THEN BOOLEAN
                                 ELSE {TRUE}) :
                   LET r == process_record(args, accounts[idx], email_sent, now,
                                           render_ok, smtp_ok)
                   IN  /\ accounts' = [accounts EXCEPT ![idx] = r.account]
                       /\ email_sent' = r.email_sent
                       /\ smtp_log' = smtp_log \o r.calls
                       /\ clock' = now2
                       \* an exception leaving the loop body ends the run
                       /\ pc' = IF r.raised THEN "aborted" ELSE pc
                       /\ idx' = IF r.raised THEN idx ELSE idx + 1
    /\ UNCHANGED <<entry, args, query_result, outfile, store_log>>
    /\ UNCHANGED <<pers_records, org_records, successes, fails, store, session,
                   autocommit, alert_sent>>

\* process_records returns; write_audit_log, which reads datetime.now() for
\* its first printed line and, once the file is open, for the RUN DATE row
WriteAuditLog ==
    /\ pc = "process_records"
    /\ idx > Len(accounts)
    /\ clock' \in clock..MaxClock
    /\ \/ /\ outfile' = [exists |-> TRUE, rows |-> write_audit_log(accounts)]
          /\ pc' = "done"
       \* open() raises
       \/ /\ pc' = "aborted"
          /\ UNCHANGED outfile
       \* a call made while the file is open raises (today_date, EFFDATE,
       \* config["csv_header"], record[field], a writerow): the rows written
       \* so far stay in the file
       \/ /\ \E rows \in Prefixes(write_audit_log(accounts)) :
               outfile' = [exists |-> TRUE, rows |-> rows]
          /\ pc' = "aborted"
    /\ UNCHANGED <<entry, args, query_result, accounts, idx, email_sent, smtp_log,
                   store_log>>
    /\ UNCHANGED <<pers_records, org_records, successes, fails, store, session,
                   autocommit, alert_sent>>

NextRun ==
    \/ RunValidate
    \/ FetchRecords
    \/ UpdatePers
    \/ UpdateOrg
    \/ WriteReports

NextEmail ==
    \/ Initialize
    \/ ProcessRecord
    \/ WriteAuditLog

Next == NextRun \/ NextEmail

\* either entry point
Spec == Init /\ [][Next]_vars
\* the legacy run
SpecRun == InitRun /\ [][NextRun]_vars
\* the email flow
SpecEmail == InitEmail /\ [][NextEmail]_vars

(***************************************************************************)
(* Vocabulary of the properties.                                           *)
(***************************************************************************)
\* the dispositions, by the RESULT text the code writes
Sent == "Email Sent"
AlreadySent == "Email Already Sent"
InvalidEmail == "Email Address Invalid"
NonzeroBalance == "Account Has Balance"
ActiveNotice == "Existing Active 8FDI Note"
Disabled == "Email Send Disabled"
SendFailed == "Email Failed"

EmailFlow == entry = "run_with_email_flow"
LegacyRun == entry = "run"

\* process_records has returned
LoopDone ==
    EmailFlow /\ pc \in {"process_records", "done"} /\ idx > Len(accounts)

\* the records the loop has finished with
Processed == {i \in DOMAIN accounts : i < idx}

(***************************************************************************)
(* C1                                                                      *)
(***************************************************************************)
\* C1: once process_records has returned, a record's EXCPYN flag is true
\* exactly when its RESULT is InvalidEmail, NonzeroBalance, ActiveNotice or
\* SendFailed; Disabled and AlreadySent records have EXCPYN = FALSE.
C1_ExceptionIffErrorDisposition ==
    LoopDone =>
        \A i \in DOMAIN accounts :
            /\ accounts[i].RESULT \in {Sent, AlreadySent, InvalidEmail, NonzeroBalance,
                                       ActiveNotice, Disabled, SendFailed}
            /\ accounts[i].EXCPYN <=>
                 accounts[i].RESULT \in {InvalidEmail, NonzeroBalance, ActiveNotice,
                                         SendFailed}

(***************************************************************************)
(* C2                                                                      *)
(***************************************************************************)
\* C2 as stated: of two records with the same address, the one processed
\* second is AlreadySent with EXCPYN = FALSE whatever the first one's outcome.
C2_SecondAlwaysAlreadySent ==
    \A i, j \in Processed :
        (i < j /\ accounts[i].EMAILADDR = accounts[j].EMAILADDR)
            => (accounts[j].RESULT = AlreadySent /\ ~accounts[j].EXCPYN)

\* C2 amended: of two records with the same address, if the outcome of the
\* first one is Sent, SendFailed, Disabled or AlreadySent (it is not
\* InvalidEmail, NonzeroBalance or ActiveNotice), the second is AlreadySent
\* with EXCPYN = FALSE whatever its balance and note fields are.
C2_SecondAlreadySentAfterDispatch ==
    \A i, j \in Processed :
        (/\ i < j
         /\ accounts[i].EMAILADDR = accounts[j].EMAILADDR
         /\ accounts[i].RESULT \in {Sent, SendFailed, Disabled, AlreadySent})
            => (accounts[j].RESULT = AlreadySent /\ ~accounts[j].EXCPYN)

\* a failed send, then a record with the same address, a balance and an active
\* note, which is AlreadySent
C2_Witness ==
    \E i, j \in Processed :
        /\ i < j
        /\ accounts[i].EMAILADDR = accounts[j].EMAILADDR
        /\ accounts[i].RESULT = SendFailed
        /\ accounts[j].BALANCE = Some(150)
        /\ accounts[j].FDI_NOTECLASSCD = "8FDI"
        /\ accounts[j].FDI_INACTIVE_DATE = Some(1)
        /\ accounts[j].RESULT = AlreadySent
        /\ ~accounts[j].EXCPYN

(***************************************************************************)
(* C6                                                                      *)
(***************************************************************************)
\* C6: no two calls of the transport in one run are made for records with the
\* same email address.
C6_OneTransportCallPerAddress ==
    \A m, n \in DOMAIN smtp_log :
        m < n => smtp_log[m].rcpt # smtp_log[n].rcpt

\* a run with a test override address in which the transport failed for an
\* address and a later record carries the same address
C6_Witness ==
    /\ LoopDone
    /\ args.TEST_EMAIL_ADDR # ""
    /\ \E m \in DOMAIN smtp_log, j \in DOMAIN accounts :
        /\ ~smtp_log[m].ok
        /\ smtp_log[m].acct < j
        /\ accounts[j].EMAILADDR = smtp_log[m].rcpt
        /\ accounts[j].BALANCE # Some(150)
        /\ Len(smtp_log) = 1

(***************************************************************************)
(* C7                                                                      *)
(***************************************************************************)
\* position of the row with a given label
RowOfText(rows, t) == CHOOSE k \in DOMAIN rows : rows[k].text = t

\* the records of the data rows strictly between two positions
RecordsBetween(rows, lo, hi) ==
    LET part == SelectSeq(SubSeq(rows, lo + 1, hi - 1), LAMBDA r : r.rec # <<>>)
    IN  [k \in DOMAIN part |-> part[k].rec[1]]

SentSection ==
    RecordsBetween(outfile.rows, RowOfText(outfile.rows, "EMAILS SENT"),
                   RowOfText(outfile.rows, "EXCEPTIONS"))

ExceptionSection ==
    RecordsBetween(outfile.rows, RowOfText(outfile.rows, "EXCEPTIONS"),
                   RowOfText(outfile.rows, "END"))

Occurrences(seq, x) == Cardinality({k \in DOMAIN seq : seq[k] = x})

\* ACCTNBR is the position of the record in the input list
InInputOrder(seq) ==
    \A m, n \in DOMAIN seq : m < n => seq[m].ACCTNBR < seq[n].ACCTNBR

\* C7: the audit log holds every record of the final list exactly once, in the
\* sent section iff EXCPYN is false and in the exception section iff it is
\* true, and each section keeps the order of the input list.
C7_AuditPartition ==
    (EmailFlow /\ pc = "done") =>
        /\ \A i \in DOMAIN accounts :
            /\ Occurrences(SentSection, accounts[i]) = (IF accounts[i].EXCPYN THEN 0 ELSE 1)
            /\ Occurrences(ExceptionSection, accounts[i]) = (IF accounts[i].EXCPYN THEN 1 ELSE 0)
        /\ Len(SentSection) + Len(ExceptionSection) = Len(accounts)
        /\ InInputOrder(SentSection)
        /\ InInputOrder(ExceptionSection)

\* an audit log with two records in the sent section, the second of them
\* AlreadySent
C7_Witness ==
    /\ EmailFlow /\ pc = "done"
    /\ Len(accounts) = 2
    /\ Len(SentSection) = 2
    /\ accounts[1].RESULT = Sent
    /\ accounts[2].RESULT = AlreadySent
    /\ ExceptionSection = <<>>

(***************************************************************************)
(* C10                                                                     *)
(***************************************************************************)
\* the disposition the rule order of C10 gives a record
RuleOrder(acc, guard, now) ==
    IF acc.EMAILADDR \in guard THEN {AlreadySent}
    ELSE IF acc.EMAILADDR = "" \/ acc.EMAILADDR \notin WellFormedEmails THEN {InvalidEmail}
    ELSE IF acc.BALANCE # None /\ acc.BALANCE # Some(0) THEN {NonzeroBalance}
    ELSE IF /\ acc.FDI_NOTECLASSCD = "8FDI"
            /\ acc.FDI_INACTIVE_DATE # None
            /\ acc.FDI_INACTIVE_DATE[1] * TicksPerDay >= now
         THEN {ActiveNotice}
    ELSE {Sent, SendFailed, Disabled}

\* C10: every iteration of the loop gives its record the disposition of the
\* first matching rule in the order guard, address, balance, active 8FDI note,
\* dispatcher.  The rules are judged at clock', the last value datetime.now()
\* returned in the iteration: a note found inactive by is_fdi is inactive at
\* the later read of generate_email_content as well.
C10_FirstMatchingRule ==
    [][(pc = "process_records" /\ idx' = idx + 1) =>
          /\ accounts'[idx].RESULT \in RuleOrder(accounts[idx], email_sent, clock')
          /\ (accounts'[idx].RESULT \in {Sent, SendFailed, Disabled}
                => accounts[idx].EMAILADDR \in email_sent')
          /\ (accounts'[idx].RESULT \notin {Sent, SendFailed, Disabled}
                => email_sent' = email_sent /\ smtp_log' = smtp_log)]_vars

\* a record matching the address, balance and note rules is InvalidEmail, and
\* one matching the balance and note rules is NonzeroBalance
C10_Witness ==
    \E i, j \in Processed :
        /\ accounts[i].EMAILADDR = "not-an-email"
        /\ accounts[i].BALANCE = Some(150)
        /\ accounts[i].FDI_NOTECLASSCD = "8FDI"
        /\ accounts[i].FDI_INACTIVE_DATE = Some(1)
        /\ accounts[i].RESULT = InvalidEmail
        /\ accounts[j].EMAILADDR = "a@b.com"
        /\ accounts[j].BALANCE = Some(150)
        /\ accounts[j].FDI_NOTECLASSCD = "8FDI"
        /\ accounts[j].FDI_INACTIVE_DATE = Some(1)
        /\ accounts[j].RESULT = NonzeroBalance

(***************************************************************************)
(* Properties of the legacy run.                                           *)
(***************************************************************************)
\* both calls of update_stdl_userfield have returned
UpdatesDone == LegacyRun /\ pc \in {"write_report", "done"}

\* a report tuple written for a record
RowFor(row, rec) ==
    /\ row.v[1].v = rec.ENTITY_NUMBER
    /\ row.v[2] = rec.ACCTNBR
    /\ row.v[3] = rec.ENTITY_TYPE
    /\ row.v[4] = rec.CLOSE_DATE

RowsFor(list, rec) == {k \in DOMAIN list : RowFor(list[k], rec)}

RecordsOf(table) == IF table = "persuserfield" THEN pers_records ELSE org_records

\* the records whose key the store rejected in some batch
RejectedRecords ==
    {rec \in EntityRows :
        \E m \in DOMAIN store_log :
            /\ store_log[m].op = "executemany"
            /\ \E off \in store_log[m].rejected :
                /\ rec.ENTITY_NUMBER = store_log[m].keys[off + 1]
                /\ \E i \in DOMAIN RecordsOf(store_log[m].table) :
                     RecordsOf(store_log[m].table)[i] = rec}

(***************************************************************************)
(* C3                                                                      *)
(***************************************************************************)
\* C3: every input record whose entity id is a key the store rejected has a
\* row with result 'Fail' in the failure list and no row in the success list.
C3_RejectedKeyRecordsFail ==
    UpdatesDone =>
        \A rec \in RejectedRecords :
            /\ \E k \in RowsFor(fails, rec) : fails[k].v[5] = "Fail"
            /\ RowsFor(successes, rec) = {}

(***************************************************************************)
(* C4                                                                      *)
(***************************************************************************)
ExactlyOneRowEach(records) ==
    /\ \A i \in DOMAIN records :
         Cardinality(RowsFor(successes, records[i]))
           + Cardinality(RowsFor(fails, records[i])) = 1
    /\ Len(successes) + Len(fails) = Len(records)

\* C4: the success and failure lists update_stdl_userfield returns hold
\* together exactly one row per input record, whatever keys were rejected.
C4_OneRowPerRecord ==
    /\ (LegacyRun /\ pc = "update_org") => ExactlyOneRowEach(pers_records)
    /\ UpdatesDone => ExactlyOneRowEach(pers_records \o org_records)

\* two records share an entity id whose key the store rejected
C4_Witness ==
    /\ UpdatesDone
    /\ \E r1, r2 \in RejectedRecords :
         r1 # r2 /\ r1.ENTITY_NUMBER = r2.ENTITY_NUMBER /\ r1.ENTITY_TYPE = r2.ENTITY_TYPE

(***************************************************************************)
(* C5                                                                      *)
(***************************************************************************)
ReportOnly == LegacyRun /\ args.RPTONLY_YN = "Y"

\* every merge in the log is followed by a rollback, or by the end of the run
\* when the rollback call itself raised, and nothing is committed
EveryMergeRolledBack ==
    \A k \in DOMAIN store_log :
        /\ store_log[k].op # "commit"
        /\ store_log[k].op = "executemany" =>
             \/ k + 1 \in DOMAIN store_log /\ store_log[k + 1].op = "rollback"
             \/ k = Len(store_log) /\ pc = "aborted"

\* C5: in report-only mode no step of the run changes the committed rows of
\* the store; the connection does not auto-commit and every batch merge is
\* followed by a rollback, never by a commit (a rollback call that raises
\* ends the run, with the merge uncommitted).
C5_ReportOnlyNeverPersists ==
    /\ [](ReportOnly => (~autocommit /\ EveryMergeRolledBack))
    /\ [][ReportOnly => store' = store]_vars

\* a completed report-only run whose batch had an accepted and a rejected key
C5_Witness ==
    /\ ReportOnly
    /\ pc = "done"
    /\ session = store
    /\ \E k \in DOMAIN store_log :
         /\ store_log[k].op = "executemany"
         /\ Len(store_log[k].keys) = 2
         /\ Cardinality(store_log[k].rejected) = 1

(***************************************************************************)
(* C8                                                                      *)
(***************************************************************************)
DataRecords(rows) == {rows[k].rec[1] : k \in {n \in DOMAIN rows : rows[n].rec # <<>>}}

\* C8: a run that reaches its end has written a report file that has a row
\* for every input record, also when there are no input records.
C8_CompletedRunWritesReport ==
    pc = "done" =>
        /\ outfile.exists
        /\ outfile # PriorFile
        /\ LegacyRun =>
             \A i \in DOMAIN query_result :
                \E row \in DataRecords(outfile.rows) : RowFor(row, query_result[i])
        /\ EmailFlow =>
             \A i \in DOMAIN accounts : accounts[i] \in DataRecords(outfile.rows)

(***************************************************************************)
(* C9                                                                      *)
(***************************************************************************)
BothSupplied == args.FULL_CLEANUP_YN = "Y" /\ args.RUN_DATE # None
NeitherSupplied == args.FULL_CLEANUP_YN # "Y" /\ args.RUN_DATE = None

\* C9: a legacy run whose output path exists, or that has both or neither of
\* FULL_CLEANUP and RUN_DATE, aborts in its first step, with nothing submitted
\* to the store and the output file untouched, and an aborted run does nothing
\* more.
C9_InvalidRunAbortsFirst ==
    [][/\ pc # "aborted"
       /\ (LegacyRun /\ pc = "run" /\ (outfile.exists \/ BothSupplied \/ NeitherSupplied))
            => /\ pc' = "aborted"
               /\ store_log' = <<>>
               /\ outfile' = outfile
               /\ store' = store
               /\ session' = session]_vars

\* a run given both parameters has aborted with no file and an empty log
C9_Witness ==
    /\ LegacyRun
    /\ pc = "aborted"
    /\ BothSupplied
    /\ outfile = NoFile
    /\ store_log = <<>>
    /\ query_result # <<>>

(***************************************************************************)
(* C11                                                                     *)
(***************************************************************************)
\* C11: a step calls the transport only while process_records handles a
\* record that matches none of the four skip rules (its address is not in the
\* guard, is well formed, its balance is zero or null, it has no active 8FDI
\* note), with sending enabled and in the production environment; the step
\* then makes exactly one call, for that record.  Every other step leaves the
\* transport alone.
C11_TransportOnlyForEligible ==
    [][smtp_log' # smtp_log =>
          /\ pc = "process_records"
          /\ idx \in DOMAIN accounts
          /\ RuleOrder(accounts[idx], email_sent, clock') = {Sent, SendFailed, Disabled}
          /\ args.SEND_EMAIL_YN = "Y"
          /\ args.AW_HOME # ""
          /\ Len(smtp_log') = Len(smtp_log) + 1
          /\ SubSeq(smtp_log', 1, Len(smtp_log)) = smtp_log
          /\ smtp_log'[Len(smtp_log')].acct = accounts[idx].ACCTNBR]_vars

\* a record with a balance was skipped without a call and the next record was
\* sent with the only call of the run
C11_Witness ==
    /\ LoopDone
    /\ Len(accounts) = 2
    /\ accounts[1].EMAILADDR = "a@b.com"
    /\ accounts[1].BALANCE = Some(150)
    /\ accounts[1].RESULT = NonzeroBalance
    /\ accounts[2].RESULT = Sent
    /\ Len(smtp_log) = 1
    /\ smtp_log[1].acct = accounts[2].ACCTNBR

(***************************************************************************)
(* C12                                                                     *)
(***************************************************************************)
\* C12: every call of the transport belongs to a record the loop has finished
\* with, so no call, failed or not, ended the run (what can end it is a
\* failure of the content generation, before any call for that record); a
\* record for which the transport failed is SendFailed with EXCPYN = TRUE;
\* and once process_records has returned every record has one of the seven
\* dispositions, none is left empty.
C12_TransportFailureDoesNotStopLoop ==
    /\ \A m \in DOMAIN smtp_log :
         \E i \in Processed :
            /\ accounts[i].ACCTNBR = smtp_log[m].acct
            /\ accounts[i].RESULT = (IF smtp_log[m].ok THEN Sent ELSE SendFailed)
            /\ accounts[i].EXCPYN = ~smtp_log[m].ok
    /\ LoopDone =>
         \A i \in DOMAIN accounts :
            accounts[i].RESULT \in {Sent, AlreadySent, InvalidEmail, NonzeroBalance,
                                    ActiveNotice, Disabled, SendFailed}

\* the transport failed for the first record and the second one was sent
C12_Witness ==
    /\ LoopDone
    /\ Len(accounts) = 2
    /\ accounts[1].RESULT = SendFailed
    /\ accounts[1].EXCPYN
    /\ accounts[2].RESULT = Sent
    /\ Len(smtp_log) = 2
    /\ ~smtp_log[1].ok

(***************************************************************************)
(* C13                                                                     *)
(***************************************************************************)
\* the records the dispatcher has handled
Dispatcher == {i \in Processed : accounts[i].RESULT \in {Sent, SendFailed, Disabled}}

\* C13 as stated: the address send_email sent to (the test override address
\* when one is supplied) is in the guard after the dispatcher handled a record.
C13_ToAddressRegistered ==
    \A i \in Dispatcher : ToAddress(args, accounts[i]) \in email_sent

\* C13 amended: after the dispatcher handled a record, with any outcome, the
\* record's own EMAILADDR (the address sent to when no test override is
\* supplied) is in the guard; no two records handled by the dispatcher share
\* an address, so each was added once, and the guard holds nothing else.
C13_RecordAddressRegisteredOnce ==
    /\ \A i \in Dispatcher : accounts[i].EMAILADDR \in email_sent
    /\ \A i, j \in Dispatcher :
         accounts[i].EMAILADDR = accounts[j].EMAILADDR => i = j
    /\ EmailFlow => email_sent = {accounts[i].EMAILADDR : i \in Dispatcher}

\* with a test override address, one record sent, one failed and the guard
\* holding their two addresses and not the override address
C13_Witness ==
    /\ LoopDone
    /\ args.TEST_EMAIL_ADDR # ""
    /\ Len(accounts) = 2
    /\ accounts[1].RESULT = Sent
    /\ accounts[2].RESULT = SendFailed
    /\ email_sent = {accounts[1].EMAILADDR, accounts[2].EMAILADDR}
    /\ args.TEST_EMAIL_ADDR \notin email_sent
    /\ \A m \in DOMAIN smtp_log : smtp_log[m].to = args.TEST_EMAIL_ADDR

(***************************************************************************)
(* C14                                                                     *)
(***************************************************************************)
\* the executemany calls made for a table
MergesOf(table) ==
    {k \in DOMAIN store_log :
        store_log[k].op = "executemany" /\ store_log[k].table = table}

\* C14: when the record list of a table is empty, update_stdl_userfield makes
\* no executemany call for that table and returns empty lists.
C14_EmptyInputSkipsMerge ==
    /\ (LegacyRun /\ pc \in {"update_org", "write_report", "done"} /\ pers_records = <<>>)
         => MergesOf("persuserfield") = {}
    /\ (LegacyRun /\ pc \in {"write_report", "done"} /\ org_records = <<>>)
         => MergesOf("orguserfield") = {}
    /\ (UpdatesDone /\ pers_records = <<>> /\ org_records = <<>>)
         => (successes = <<>> /\ fails = <<>>)

(***************************************************************************)
(* C15                                                                     *)
(***************************************************************************)
\* C15: every record of the EMAILS SENT section has an address for which the
\* transport reported a success at or before that record's turn.
C15_SentSectionWasDelivered ==
    (EmailFlow /\ pc = "done") =>
        \A k \in DOMAIN SentSection :
            \E m \in DOMAIN smtp_log :
                /\ smtp_log[m].ok
                /\ smtp_log[m].rcpt = SentSection[k].EMAILADDR
                /\ smtp_log[m].acct <= SentSection[k].ACCTNBR

\* C15 amended: every record of the EMAILS SENT section is either Sent, with a
\* successful call of the transport made for that record, or AlreadySent, with
\* an earlier record of the same address that the dispatcher handled (Sent,
\* SendFailed or Disabled).
C15_SentSectionSentOrDuplicate ==
    (EmailFlow /\ pc = "done") =>
        \A k \in DOMAIN SentSection :
            \/ /\ SentSection[k].RESULT = Sent
               /\ \E m \in DOMAIN smtp_log :
                    /\ smtp_log[m].ok
                    /\ smtp_log[m].acct = SentSection[k].ACCTNBR
                    /\ smtp_log[m].rcpt = SentSection[k].EMAILADDR
            \/ /\ SentSection[k].RESULT = AlreadySent
               /\ \E i \in DOMAIN accounts :
                    /\ accounts[i].ACCTNBR < SentSection[k].ACCTNBR
                    /\ accounts[i].EMAILADDR = SentSection[k].EMAILADDR
                    /\ accounts[i].RESULT \in {Sent, SendFailed, Disabled}

\* the transport failed for the first record; the second, of the same address,
\* is the only record of the EMAILS SENT section and no call succeeded
C15_Witness ==
    /\ EmailFlow /\ pc = "done"
    /\ Len(accounts) = 2
    /\ accounts[1].RESULT = SendFailed
    /\ accounts[2].EMAILADDR = accounts[1].EMAILADDR
    /\ accounts[2].RESULT = AlreadySent
    /\ SentSection = <<accounts[2]>>
    /\ \A m \in DOMAIN smtp_log : ~smtp_log[m].ok

====
